---- MODULE Spec2Model ----
(***************************************************************************)
(* tools/capture_ocr_enhanced.py: capture one frame with ffmpeg,           *)
(* preprocess it with Pillow, run an OCR engine on it, clean up the        *)
(* temporary files; optionally in a polling loop (watch mode).             *)
(*                                                                         *)
(* Strings are sequences of one-character strings.  The external           *)
(* collaborators (ffmpeg, Pillow, tesseract, easyocr, the signal that      *)
(* interrupts the process) are inputs drawn at the step that calls them.   *)
(* out and err hold what the current cycle (or single run) has written to  *)
(* standard output and to the diagnostic stream.                           *)
(***************************************************************************)
EXTENDS Integers, Sequences, FiniteSets, TLC

VARIABLES
    args,             \* the parsed command line (main, line 174)
    branch,           \* the branch main took: "watch", "save" or "single"
    preprocess,       \* capture_and_ocr's preprocess parameter / not args.no_preprocess
    pc,               \* the statement the program executes next
    disk,             \* files on disk: path -> content
    screenshot_path,  \* capture_frame's local: the temporary file it created
    screenshot,       \* the caller's local: capture_frame's return value
    processed,        \* preprocess_image's return value
    text,             \* the OCR text of the current cycle
    last_text,        \* watch_mode's remembered text of the previous cycle
    out,              \* print() calls to standard output in this cycle
    err,              \* diagnostics written to sys.stderr in this cycle
    unlinks,          \* os.unlink calls in this cycle: path -> count
    calls,            \* pipeline functions entered in this cycle
    exc,              \* the exception in flight, or the one that ended the run
    prev_failed,      \* the previous watch cycle's capture failed
    ocr,              \* do_ocr in isolation: its environment and its result
    img               \* preprocess_image in isolation: the image and the stage

vars == <<args, branch, preprocess, pc, disk, screenshot_path, screenshot,
          processed, text, last_text, out, err, unlinks, calls, exc,
          prev_failed, ocr, img>>

progVars == <<args, branch, preprocess, pc, disk, screenshot_path, screenshot,
              processed, text, last_text, out, err, unlinks, calls, exc,
              prev_failed>>

-----------------------------------------------------------------------------
(* Bounds *)

\* most lines in one OCR text
MaxLines == 2
\* temporary file names available to tempfile
MaxTemp == 2
\* most pixels of an exhaustively enumerated image
MaxPix == 3

-----------------------------------------------------------------------------
(* Strings *)

NL == "\n"

LineSet == {<<>>, <<"a">>, <<"b">>, <<"c">>, <<"a", "b">>}

Range(s) == {s[i] : i \in 1..Len(s)}

\* str.split('\n')
RECURSIVE Split(_)
Split(s) ==
    IF s = <<>> THEN << <<>> >>
    ELSE LET r == Split(Tail(s)) IN
         IF Head(s) = NL THEN << <<>> >> \o r
         ELSE << <<Head(s)>> \o Head(r) >> \o Tail(r)

\* '\n'.join(segs)
RECURSIVE Join(_)
Join(segs) ==
    IF segs = <<>> THEN <<>>
    ELSE IF Len(segs) = 1 THEN segs[1]
    ELSE segs[1] \o <<NL>> \o Join(Tail(segs))

\* what an OCR engine can write: up to MaxLines lines
Texts == {Join(ls) : ls \in UNION {[1..n -> LineSet] : n \in 1..MaxLines}}

\* what easyocr's readtext can return: a list of non-empty segments
Segments == UNION {[1..n -> LineSet \ {<<>>}] : n \in 0..MaxLines}

-----------------------------------------------------------------------------
(* Paths and the file system *)

None == [id |-> 0, kind |-> "none"]
SavePath == [id |-> 0, kind |-> "save"]
TempPath(i) == [id |-> i, kind |-> "png"]

\* input_path.replace('.png', '_processed.png')
ProcessedPath(p) == [p EXCEPT !.kind = "processed"]

Paths == {TempPath(i) : i \in 1..MaxTemp}
         \cup {ProcessedPath(TempPath(i)) : i \in 1..MaxTemp}
         \cup {SavePath}

WriteFile(d, p, c) == [q \in DOMAIN d \cup {p} |-> IF q = p THEN c ELSE d[q]]

RemoveFile(d, p) == [q \in DOMAIN d \ {p} |-> d[q]]

Exists(p) == p \in DOMAIN disk

FreeIds == {i \in 1..MaxTemp : ~Exists(TempPath(i))}

\* tempfile.NamedTemporaryFile: a name no existing file has
NewTemp == TempPath(CHOOSE i \in FreeIds : \A j \in FreeIds : i <= j)

NoUnlinks == [p \in Paths |-> 0]

-----------------------------------------------------------------------------
(* do_ocr and the two engines (lines 75-111) *)

\* what importing and running easyocr can do
EasyEnv == {[kind |-> "ImportError", segs |-> <<>>],
            [kind |-> "RuntimeError", segs |-> <<>>]}
           \cup {[kind |-> "segments", segs |-> s] : s \in Segments}

\* ocr_tesseract: result.stdout, as subprocess.run delivers it
ocr_tesseract(stdout) == stdout

\* ocr_easyocr: the joined segments, None on ImportError; anything else propagates
ocr_easyocr(easy) ==
    IF easy.kind = "segments"
    THEN [raised |-> FALSE, none |-> FALSE, text |-> Join(easy.segs)]
    ELSE IF easy.kind = "ImportError"
    THEN [raised |-> FALSE, none |-> TRUE, text |-> <<>>]
    ELSE [raised |-> TRUE, none |-> FALSE, text |-> <<>>]

NoEngineDiag == <<"ERROR: No OCR engine available",
                  "Install: sudo pacman -S tesseract tesseract-data-eng">>

\* a do_ocr that also falls back to easyocr when tesseract prints nothing
do_ocr_fallback_on_empty(probe, stdout, easy) ==
    IF probe /\ stdout # <<>>
    THEN [raised |-> FALSE, text |-> ocr_tesseract(stdout), diag |-> <<>>,
          invoked |-> {"tesseract"}]
    ELSE LET result == ocr_easyocr(easy) IN
         [raised |-> result.raised, text |-> result.text,
          diag |-> IF result.none THEN NoEngineDiag ELSE <<>>,
          invoked |-> (IF probe THEN {"tesseract"} ELSE {}) \cup {"easyocr"}]

\* do_ocr: probe is `which tesseract` exiting 0
do_ocr(probe, stdout, easy) ==
    IF probe
    THEN [raised |-> FALSE, text |-> ocr_tesseract(stdout), diag |-> <<>>,
          invoked |-> {"tesseract"}]
    ELSE LET result == ocr_easyocr(easy) IN
         IF result.raised
         THEN [raised |-> TRUE, text |-> <<>>, diag |-> <<>>,
               invoked |-> {"easyocr"}]
         ELSE IF ~result.none
         THEN [raised |-> FALSE, text |-> result.text, diag |-> <<>>,
               invoked |-> {"easyocr"}]
         ELSE [raised |-> FALSE, text |-> <<>>, diag |-> NoEngineDiag,
               invoked |-> {"easyocr"}]

\* one run of do_ocr: tesseract writes output only when the probe finds it,
\* easyocr is imported only when the probe does not
OcrRuns == {[probe |-> TRUE, stdout |-> s, easy |-> [kind |-> "ImportError", segs |-> <<>>]]
               : s \in Texts}
           \cup {[probe |-> FALSE, stdout |-> <<>>, easy |-> e] : e \in EasyEnv}

-----------------------------------------------------------------------------
(* watch_mode's output policy (lines 143-157) *)

Clear == <<"ESC[2J", "ESC[H">>

\* a filter that forgets to drop empty lines
NewLines_keep_empty(t, last) ==
    LET lines == Split(t)
        last_lines == Split(last)
    IN  SelectSeq(lines, LAMBDA l : l \notin Range(last_lines))

\* [l for l in lines if l and l not in last_lines]
NewLines(t, last) ==
    LET lines == Split(t)
        last_lines == Split(last)
    IN  SelectSeq(lines, LAMBDA l : l # <<>> /\ l \notin Range(last_lines))

\* a full mode that reprints every cycle
WatchOutput_always_reprint(diff, t, last) ==
    IF diff THEN NewLines(t, last) ELSE <<Clear, t>>

\* the print calls of one cycle
WatchOutput(diff, t, last) ==
    IF diff THEN NewLines(t, last)
    ELSE IF t # last THEN <<Clear, t>>
    ELSE <<>>

\* a loop that remembers the text only when it printed something
NextLastText_only_when_printed(t, last, printed) ==
    IF printed # <<>> THEN t ELSE last

\* last_text = text (line 159)
NextLastText(t, last, printed) == t

-----------------------------------------------------------------------------
(* main's dispatch (lines 176-189) *)

\* a dispatch that tests the save path before the watch flag
Dispatch_save_first(a) ==
    IF a.save # None THEN "save"
    ELSE IF a.watch THEN "watch"
    ELSE "single"

Dispatch(a) ==
    IF a.watch THEN "watch"
    ELSE IF a.save # None THEN "save"
    ELSE "single"

\* the preprocess argument: watch_mode calls capture_and_ocr(device)
PreprocessArg(a) ==
    IF Dispatch(a) = "watch" THEN TRUE ELSE ~a.no_preprocess

Args == [watch : BOOLEAN, diff : BOOLEAN, no_preprocess : BOOLEAN,
         save : {None, SavePath}]

-----------------------------------------------------------------------------
(* Exceptions *)

\* a capture_and_ocr without try/finally
InTry_no_finally == FALSE

\* inside capture_and_ocr's try block (lines 119-126)
InTry == branch # "save" /\ pc \in {"pre", "ocr", "post_ocr"}

\* a watch_mode that catches every exception
Propagate_catch_all(e) ==
    /\ exc' = e
    /\ IF branch = "watch"
       THEN pc' = "returned" /\ err' = Append(err, "Stopped.")
       ELSE pc' = "crashed" /\ err' = err

\* an exception leaves the program: watch_mode catches KeyboardInterrupt only
Propagate(e) ==
    /\ exc' = e
    /\ IF branch = "watch" /\ e = "KeyboardInterrupt"
       THEN pc' = "returned" /\ err' = Append(err, "Stopped.")
       ELSE pc' = "crashed" /\ err' = err

\* an exception is raised at pc: the finally clause runs first when inside the try
Raise(e) ==
    IF InTry
    THEN pc' = "finally" /\ exc' = e /\ err' = err
    ELSE Propagate(e)

\* where capture_and_ocr's return value goes
AfterCapture == IF branch = "watch" THEN "w_emit" ELSE "print"

NoOcr == [stage |-> "none"]
NoImg == [stage |-> "none"]

-----------------------------------------------------------------------------
(* The program *)

Init ==
    /\ args \in Args
    /\ branch = "none"
    /\ preprocess = TRUE
    /\ pc = "main"
    /\ disk = << >>
    /\ screenshot_path = None
    /\ screenshot = None
    /\ processed = None
    /\ text = <<>>
    /\ last_text = <<>>
    /\ out = <<>>
    /\ err = <<>>
    /\ unlinks = NoUnlinks
    /\ calls = {}
    /\ exc = "None"
    /\ prev_failed = FALSE
    /\ ocr = NoOcr
    /\ img = NoImg

\* main, lines 176-189, and watch_mode's header, lines 134-137
Main ==
    /\ pc = "main"
    /\ branch' = Dispatch(args)
    /\ preprocess' = PreprocessArg(args)
    /\ err' = IF Dispatch(args) = "watch"
              THEN <<"Watching (Ctrl+C to stop)...", "------">>
              ELSE err
    /\ last_text' = <<>>
    /\ pc' = "grab"
    /\ UNCHANGED <<args, disk, screenshot_path, screenshot, processed, text,
                   out, unlinks, calls, exc, prev_failed, ocr, img>>

\* capture_frame, lines 19-35, and the caller's test of its result
\* (lines 115-117, 180-181); rc is ffmpeg's exit status
Grab ==
    /\ pc = "grab"
    /\ FreeIds # {}
    /\ \E rc \in {0, 1} :
        /\ screenshot_path' = NewTemp
        /\ disk' = WriteFile(disk, NewTemp, IF rc = 0 THEN "frame" ELSE "empty")
        /\ calls' = calls \cup {"capture_frame"}
        /\ IF rc = 0
           THEN /\ screenshot' = NewTemp
                /\ err' = err
                /\ text' = text
                /\ pc' = IF branch = "save" THEN "copy"
                         ELSE IF preprocess THEN "pre" ELSE "ocr"
           ELSE /\ screenshot' = None
                /\ err' = Append(err, "ERROR: ffmpeg failed")
                /\ text' = IF branch = "save" THEN text ELSE <<>>
                /\ pc' = IF branch = "save" THEN "returned" ELSE AfterCapture
    /\ UNCHANGED <<args, branch, preprocess, processed, last_text, out,
                   unlinks, exc, prev_failed, ocr, img>>

\* main, lines 182-184: shutil.copy and the report
Copy ==
    /\ pc = "copy"
    /\ disk' = WriteFile(disk, args.save, disk[screenshot])
    /\ err' = Append(err, "Saved to")
    /\ calls' = calls \cup {"copy"}
    /\ pc' = IF preprocess THEN "pre" ELSE "ocr"
    /\ UNCHANGED <<args, branch, preprocess, screenshot_path, screenshot,
                   processed, text, last_text, out, unlinks, exc,
                   prev_failed, ocr, img>>

\* preprocess_image, lines 37-73; pillow is whether PIL can be imported
Pre ==
    /\ pc = "pre"
    /\ \E pillow \in BOOLEAN :
        IF pillow
        THEN /\ processed' = ProcessedPath(screenshot)
             /\ disk' = WriteFile(disk, ProcessedPath(screenshot), "processed")
             /\ err' = err
        ELSE /\ processed' = screenshot
             /\ disk' = disk
             /\ err' = Append(err, "WARNING: Pillow not installed, skipping preprocessing")
    /\ calls' = calls \cup {"preprocess_image"}
    /\ pc' = "ocr"
    /\ UNCHANGED <<args, branch, preprocess, screenshot_path, screenshot,
                   text, last_text, out, unlinks, exc, prev_failed, ocr, img>>

\* do_ocr called from capture_and_ocr (lines 122, 126) or main (line 185)
Ocr ==
    /\ pc = "ocr"
    /\ calls' = calls \cup {"do_ocr"}
    /\ \E env \in OcrRuns :
        LET r == do_ocr(env.probe, env.stdout, env.easy) IN
        IF r.raised
        THEN /\ Raise("Exception")
             /\ text' = text
        ELSE /\ text' = r.text
             /\ err' = err \o r.diag
             /\ exc' = exc
             /\ pc' = IF branch = "save" THEN "s_unlink"
                      ELSE IF preprocess THEN "post_ocr" ELSE "finally"
    /\ UNCHANGED <<args, branch, preprocess, disk, screenshot_path, screenshot,
                   processed, last_text, out, unlinks, prev_failed, ocr, img>>

\* capture_and_ocr, lines 123-124
PostOcr ==
    /\ pc = "post_ocr"
    /\ IF processed # screenshot
       THEN /\ disk' = RemoveFile(disk, processed)
            /\ unlinks' = [unlinks EXCEPT ![processed] = @ + 1]
       ELSE UNCHANGED <<disk, unlinks>>
    /\ pc' = "finally"
    /\ UNCHANGED <<args, branch, preprocess, screenshot_path, screenshot,
                   processed, text, last_text, out, err, calls, exc,
                   prev_failed, ocr, img>>

\* capture_and_ocr, lines 127-130: the finally clause, then return or re-raise
Finally ==
    /\ pc = "finally"
    /\ disk' = RemoveFile(disk, screenshot)
    /\ unlinks' = [unlinks EXCEPT ![screenshot] = @ + 1]
    /\ IF exc = "None"
       THEN pc' = AfterCapture /\ UNCHANGED <<exc, err>>
       ELSE Propagate(exc)
    /\ UNCHANGED <<args, branch, preprocess, screenshot_path, screenshot,
                   processed, text, last_text, out, calls, prev_failed, ocr, img>>

\* main, line 186
SUnlink ==
    /\ pc = "s_unlink"
    /\ disk' = RemoveFile(disk, screenshot)
    /\ unlinks' = [unlinks EXCEPT ![screenshot] = @ + 1]
    /\ pc' = "print"
    /\ UNCHANGED <<args, branch, preprocess, screenshot_path, screenshot,
                   processed, text, last_text, out, err, calls, exc,
                   prev_failed, ocr, img>>

\* main, lines 187 and 190
PrintText ==
    /\ pc = "print"
    /\ out' = Append(out, text)
    /\ pc' = "returned"
    /\ UNCHANGED <<args, branch, preprocess, disk, screenshot_path, screenshot,
                   processed, text, last_text, err, unlinks, calls, exc,
                   prev_failed, ocr, img>>

\* watch_mode, lines 143-157
WEmit ==
    /\ pc = "w_emit"
    /\ out' = out \o WatchOutput(args.diff, text, last_text)
    /\ pc' = "w_assign"
    /\ UNCHANGED <<args, branch, preprocess, disk, screenshot_path, screenshot,
                   processed, text, last_text, err, unlinks, calls, exc,
                   prev_failed, ocr, img>>

\* watch_mode, line 159
WAssign ==
    /\ pc = "w_assign"
    /\ last_text' = NextLastText(text, last_text, out)
    /\ pc' = "sleep"
    /\ UNCHANGED <<args, branch, preprocess, disk, screenshot_path, screenshot,
                   processed, text, out, err, unlinks, calls, exc,
                   prev_failed, ocr, img>>

\* watch_mode, line 160 and the loop back to line 141: the next cycle starts
\* with fresh locals and an empty per-cycle record of output and calls
Sleep ==
    /\ pc = "sleep"
    /\ pc' = "grab"
    /\ prev_failed' = (screenshot = None)
    /\ screenshot_path' = None
    /\ screenshot' = None
    /\ processed' = None
    /\ out' = <<>>
    /\ err' = <<>>
    /\ unlinks' = NoUnlinks
    /\ calls' = {}
    /\ UNCHANGED <<args, branch, preprocess, disk, text, last_text, exc, ocr, img>>

\* an exception raised by the blocking call at pc: Ctrl+C during ffmpeg,
\* Pillow, the OCR engine or time.sleep; an error of ffmpeg's launch, of
\* Pillow or of an OCR subprocess.  During capture_frame the temporary file
\* already exists.
Fault ==
    /\ pc \in {"grab", "pre", "ocr", "sleep"}
    /\ \E e \in {"KeyboardInterrupt", "Exception"} :
        /\ pc = "sleep" => e = "KeyboardInterrupt"
        /\ Raise(e)
    /\ IF pc = "grab"
       THEN /\ FreeIds # {}
            /\ screenshot_path' = NewTemp
            /\ disk' = WriteFile(disk, NewTemp, "empty")
       ELSE UNCHANGED <<screenshot_path, disk>>
    /\ UNCHANGED <<args, branch, preprocess, screenshot, processed, text,
                   last_text, out, unlinks, calls, prev_failed, ocr, img>>

Next ==
    \/ Main
    \/ Grab
    \/ Copy
    \/ Pre
    \/ Ocr
    \/ PostOcr
    \/ Finally
    \/ SUnlink
    \/ PrintText
    \/ WEmit
    \/ WAssign
    \/ Sleep
    \/ Fault

Spec == Init /\ [][Next]_vars

-----------------------------------------------------------------------------
(* do_ocr in isolation: every environment, one call *)

Idle ==
    /\ args = [watch |-> FALSE, diff |-> FALSE, no_preprocess |-> FALSE, save |-> None]
    /\ branch = "none"
    /\ preprocess = TRUE
    /\ pc = "idle"
    /\ disk = << >>
    /\ screenshot_path = None
    /\ screenshot = None
    /\ processed = None
    /\ text = <<>>
    /\ last_text = <<>>
    /\ out = <<>>
    /\ err = <<>>
    /\ unlinks = NoUnlinks
    /\ calls = {}
    /\ exc = "None"
    /\ prev_failed = FALSE

NoResult == [raised |-> FALSE, text |-> <<>>, diag |-> <<>>, invoked |-> {}]

InitOcr ==
    /\ Idle
    /\ img = NoImg
    /\ ocr \in [stage : {"call"}, probe : BOOLEAN, stdout : Texts,
                easy : EasyEnv, result : {NoResult}]

\* do_ocr(image_path), lines 98-111
CallDoOcr ==
    /\ ocr.stage = "call"
    /\ ocr' = [ocr EXCEPT !.stage = "done",
                          !.result = do_ocr(ocr.probe, ocr.stdout, ocr.easy)]
    /\ UNCHANGED <<progVars, img>>

NextOcr == CallDoOcr

SpecOcr == InitOcr /\ [][NextOcr]_vars

-----------------------------------------------------------------------------
(* preprocess_image's binarization and inversion (lines 59-67) in isolation. *)
(* The image is the list of its pixels after grayscale, contrast and         *)
(* sharpening; the model ends with the image handed to resize.               *)

BinThreshold == 128
DarkThreshold == 128
White == 255

GraySamples == {0, 127, 128, 255}

\* every small image, and three images of 255 pixels whose binarized mean is
\* just below, exactly and just above 128
InputImages ==
    UNION {[1..n -> GraySamples] : n \in 1..MaxPix}
    \cup {[i \in 1..255 |-> IF i <= k THEN 200 ELSE 50] : k \in 127..129}

\* lambda x: 0 if x < 128 else 255
Threshold(x) == IF x < BinThreshold THEN 0 ELSE White

\* the sum of pixels[lo..hi], halving the range
RECURSIVE SumRange(_, _, _)
SumRange(pixels, lo, hi) ==
    IF lo > hi THEN 0
    ELSE IF lo = hi THEN pixels[lo]
    ELSE LET mid == (lo + hi) \div 2 IN
         SumRange(pixels, lo, mid) + SumRange(pixels, mid + 1, hi)

Sum(pixels) == SumRange(pixels, 1, Len(pixels))

\* a test that also inverts at a mean of exactly 128
IsDark_inclusive(pixels) == Sum(pixels) <= DarkThreshold * Len(pixels)

\* avg = sum(p for p in pixels) / len(pixels); avg < 128
IsDark(pixels) == Sum(pixels) < DarkThreshold * Len(pixels)

\* ImageOps.invert on an 8-bit image
Invert(pixels) == [i \in 1..Len(pixels) |-> White - pixels[i]]

InitPre ==
    /\ Idle
    /\ ocr = NoOcr
    /\ img \in {[stage |-> "sharpened", mode |-> "L", src |-> d, data |-> d,
                 bin |-> <<>>] : d \in InputImages}

\* line 60: img.point(..., '1')
Binarize ==
    /\ img.stage = "sharpened"
    /\ LET b == [i \in 1..Len(img.data) |-> Threshold(img.data[i])] IN
       img' = [img EXCEPT !.stage = "binarized", !.mode = "1", !.data = b,
                          !.bin = b]
    /\ UNCHANGED <<progVars, ocr>>

\* lines 64-67: pixels of a mode '1' image read as 0 or 255
Orient ==
    /\ img.stage = "binarized"
    /\ LET pixels == img.data IN
       img' = IF IsDark(pixels)
              THEN [img EXCEPT !.stage = "oriented", !.mode = "L",
                               !.data = Invert(pixels)]
              ELSE [img EXCEPT !.stage = "oriented"]
    /\ UNCHANGED <<progVars, ocr>>

NextPre == Binarize \/ Orient

SpecPre == InitPre /\ [][NextPre]_vars

-----------------------------------------------------------------------------
(* Properties *)

Watching == branch = "watch"

\* capture_and_ocr has returned or let an exception out
CallExited ==
    /\ branch \in {"watch", "single"}
    /\ pc \in {"w_emit", "w_assign", "sleep", "print", "returned", "crashed"}

\* the operation that ran the pipeline is over
OperationEnded ==
    \/ pc \in {"returned", "crashed"}
    \/ Watching /\ pc \in {"w_emit", "w_assign", "sleep"}

\* the first watch cycle: the header is still this cycle's first diagnostic
FirstCycle ==
    /\ Watching
    /\ err # <<>>
    /\ err[1] = "Watching (Ctrl+C to stop)..."

NonEmptyLines(t) == SelectSeq(Split(t), LAMBDA l : l # <<>>)

\* C1: in capture_and_ocr, once capture_frame has succeeded the captured file
\* is unlinked exactly once by the time the call exits, on every exit path
\* (normal return or exception), and never more than once before that.
C1_CapturedDeletedOnce ==
    /\ \A p \in Paths : unlinks[p] <= 1
    /\ (CallExited /\ screenshot # None)
           => (unlinks[screenshot] = 1 /\ ~Exists(screenshot))

\* OCR raised after preprocessing was skipped (Pillow missing): the call has
\* exited by exception and the captured file is gone, unlinked once
C1_Witness ==
    /\ branch = "single"
    /\ pc = "crashed"
    /\ exc = "Exception"
    /\ "do_ocr" \in calls
    /\ screenshot # None
    /\ processed = screenshot
    /\ unlinks[screenshot] = 1
    /\ ~Exists(screenshot)

\* C2: when ffmpeg exits nonzero, capture_and_ocr returns "", neither
\* preprocessing nor OCR has been invoked, and the temporary file that
\* capture_frame created no longer exists.
C2_FailedCaptureLeavesNothing ==
    (/\ CallExited
     /\ exc = "None"
     /\ "capture_frame" \in calls
     /\ screenshot = None)
        => /\ text = <<>>
           /\ calls \cap {"preprocess_image", "do_ocr"} = {}
           /\ ~Exists(screenshot_path)

\* C3: a processed image that preprocessing created as a new file has been
\* unlinked exactly once and no longer exists when the operation that
\* created it has ended (OCR returning, OCR raising an error, or --save).
C3_ProcessedDeletedOnce ==
    (/\ OperationEnded
     /\ exc # "KeyboardInterrupt"
     /\ processed # None
     /\ processed # screenshot)
        => (unlinks[processed] = 1 /\ ~Exists(processed))

\* the lines of the new text that are non-empty and occur nowhere among the
\* lines of the previous text
NovelSet ==
    {l \in Range(Split(text)) : l # <<>> /\ l \notin Range(Split(last_text))}

DiffCycleEmitted == Watching /\ args.diff /\ pc = "w_assign"

\* C4 as stated: in diff mode the lines printed in a cycle are exactly the
\* set of novel lines, each printed once.
C4_NovelSetEachOnce ==
    DiffCycleEmitted
        => (Range(out) = NovelSet /\ Len(out) = Cardinality(NovelSet))

\* C4 amended: in diff mode the lines printed in a cycle are the novel
\* lines of the new text in text order, one print per occurrence (a novel
\* line occurring twice in the new text is printed twice); nothing is printed
\* when there is none; "a\nb" then "a\nc" prints exactly ["c"].
C4_NovelOccurrencesInOrder ==
    DiffCycleEmitted =>
        LET lines == Split(text)
            novel == {i \in 1..Len(lines) : lines[i] \in NovelSet}
            rank(i) == Cardinality({j \in novel : j <= i})
        IN  /\ Len(out) = Cardinality(novel)
            /\ \A i \in novel : out[rank(i)] = lines[i]
            /\ (last_text = <<"a", NL, "b">> /\ text = <<"a", NL, "c">>)
                   => out = << <<"c">> >>

C4_Witness ==
    /\ DiffCycleEmitted
    /\ last_text = <<"a", NL, "b">>
    /\ text = <<"a", NL, "c">>
    /\ out = << <<"c">> >>

\* C5: in full mode a cycle clears the screen and reprints the whole new
\* text if and only if the new text differs from the previous cycle's text,
\* which is "" before the first cycle.
C5_FullModeReprintIffChanged ==
    /\ (Watching /\ ~args.diff /\ pc = "w_assign")
           => /\ (text # last_text) => out = <<Clear, text>>
              /\ (text = last_text) => out = <<>>
    /\ (FirstCycle /\ pc \in {"grab", "pre", "ocr", "post_ocr", "finally",
                              "w_emit"})
           => last_text = <<>>

\* a later cycle read the same non-empty text again and printed nothing
C5_Witness ==
    /\ Watching /\ ~args.diff /\ pc = "w_assign"
    /\ ~FirstCycle
    /\ text = last_text
    /\ text # <<>>
    /\ out = <<>>

\* C6: do_ocr picks one outcome from engine availability: tesseract alone
\* and its output verbatim when the probe succeeds; easyocr's segments
\* joined with newlines when the probe fails and easyocr runs; "" with a
\* diagnostic and no exception when neither is available.
C6_EngineSelection ==
    ocr.stage = "done" =>
        LET r == ocr.result IN
        /\ ocr.probe =>
               /\ ~r.raised
               /\ r.text = ocr.stdout
               /\ r.invoked = {"tesseract"}
               /\ r.diag = <<>>
        /\ (~ocr.probe /\ ocr.easy.kind = "segments") =>
               /\ ~r.raised
               /\ "tesseract" \notin r.invoked
               /\ r.diag = <<>>
               /\ IF ocr.easy.segs = <<>> THEN r.text = <<>>
                  ELSE Split(r.text) = ocr.easy.segs
        /\ (~ocr.probe /\ ocr.easy.kind = "ImportError") =>
               /\ ~r.raised
               /\ r.text = <<>>
               /\ "tesseract" \notin r.invoked
               /\ Len(r.diag) > 0
               /\ r.diag[1] = "ERROR: No OCR engine available"

\* tesseract wrote nothing and easyocr would have found text: "" is returned
C6_Witness ==
    /\ ocr.stage = "done"
    /\ ocr.probe
    /\ ocr.stdout = <<>>
    /\ ocr.easy.kind = "segments"
    /\ ocr.easy.segs # <<>>
    /\ ocr.result.text = <<>>
    /\ ocr.result.invoked = {"tesseract"}

\* C7 as stated: watch_mode ends only on the interrupt, with the stop
\* notice and a normal return; no error raised in a cycle ends it.
C7_EndsOnlyOnInterrupt ==
    (Watching /\ pc \in {"returned", "crashed"})
        => /\ pc = "returned"
           /\ exc = "KeyboardInterrupt"
           /\ err[Len(err)] = "Stopped."

\* C7 amended: watch_mode ends only when an exception leaves a cycle or the
\* sleep.  On KeyboardInterrupt it prints the stop notice and returns
\* normally; any other exception raised in capture, preprocessing or OCR
\* leaves watch_mode uncaught.  A cycle that raises nothing (capture failure,
\* no OCR engine, unchanged text) never ends the loop: it is followed by the
\* sleep and the sleep by the next capture.
C7_EndsOnlyOnException ==
    /\ [](Watching =>
            /\ pc = "returned" =>
                   (exc = "KeyboardInterrupt" /\ err[Len(err)] = "Stopped.")
            /\ pc = "crashed" => exc = "Exception"
            /\ pc \notin {"returned", "crashed", "finally"} => exc = "None")
    /\ [][(Watching /\ pc \in {"w_emit", "w_assign"})
              => pc' = (IF pc = "w_emit" THEN "w_assign" ELSE "sleep")]_vars
    /\ [][(Watching /\ pc = "sleep")
              => (pc' = "grab" \/ (pc' = "returned" /\ exc' = "KeyboardInterrupt"))]_vars
    /\ [][(Watching /\ pc \in {"grab", "finally"} /\ exc' = "None")
              => pc' \notin {"returned", "crashed"}]_vars

\* an error raised by OCR ended the loop
C7_Witness ==
    /\ Watching
    /\ pc = "crashed"
    /\ exc = "Exception"
    /\ "do_ocr" \in calls
    /\ ~FirstCycle

\* the branch the flags select
FlagsSelect ==
    /\ args.watch => branch = "watch"
    /\ (~args.watch /\ args.save # None) => branch = "save"
    /\ (~args.watch /\ args.save = None) => branch = "single"

\* the raw frame is at the save path before preprocessing runs
CopyBeforePreprocess ==
    (branch = "save" /\ "preprocess_image" \in calls)
        => /\ "copy" \in calls
           /\ Exists(SavePath)
           /\ disk[SavePath] = "frame"

SingleRuns ==
    (branch = "single" /\ pc = "returned")
        => /\ out = <<text>>
           /\ preprocess = ~args.no_preprocess
           /\ screenshot # None
                  => ("preprocess_image" \in calls <=> ~args.no_preprocess)

SaveCompleted ==
    /\ Exists(SavePath)
    /\ disk[SavePath] = "frame"
    /\ "Saved to" \in Range(err)
    /\ "do_ocr" \in calls
    /\ "preprocess_image" \in calls <=> ~args.no_preprocess
    /\ out = <<text>>

\* C8 as stated: one mode is chosen from the flags; with a save path the raw
\* frame is copied before preprocessing, the path reported, OCR run and its
\* text printed; otherwise capture_and_ocr runs once and its text is printed.
C8_Dispatch ==
    /\ branch # "none" => FlagsSelect
    /\ CopyBeforePreprocess
    /\ SingleRuns
    /\ (branch = "save" /\ pc = "returned") => SaveCompleted

\* C8 amended: as stated, the --save steps holding when the capture
\* succeeds; when the capture fails in --save mode nothing is copied,
\* reported, recognised or printed.
C8_DispatchCaptureSucceeded ==
    /\ branch # "none" => FlagsSelect
    /\ CopyBeforePreprocess
    /\ SingleRuns
    /\ (branch = "save" /\ pc = "returned" /\ screenshot # None) => SaveCompleted
    /\ (branch = "save" /\ pc = "returned" /\ screenshot = None)
           => /\ ~Exists(SavePath)
              /\ "Saved to" \notin Range(err)
              /\ calls = {"capture_frame"}
              /\ out = <<>>

\* --save with preprocessing ran to the end: the saved file is the raw frame
C8_Witness ==
    /\ branch = "save"
    /\ pc = "returned"
    /\ screenshot # None
    /\ processed = ProcessedPath(screenshot)
    /\ disk[SavePath] = "frame"
    /\ out = <<text>>
    /\ text # <<>>

\* the binarized pixels that are white
WhitePixels == {i \in 1..Len(img.bin) : img.bin[i] = 255}

\* C9: after binarization every pixel is 0 or 255, and the image handed to
\* resize is the complement of the binarized image if and only if the mean
\* of the binarized pixels is strictly below 128; at 128 or above it is the
\* binarized image unchanged.
C9_InvertIffDark ==
    /\ img.stage \in {"binarized", "oriented"} =>
           /\ Len(img.bin) = Len(img.src)
           /\ \A i \in 1..Len(img.bin) :
                  /\ img.bin[i] \in {0, 255}
                  /\ img.bin[i] = 0 <=> img.src[i] < 128
    /\ img.stage = "binarized" => img.data = img.bin
    /\ img.stage = "oriented" =>
           IF 255 * Cardinality(WhitePixels) < 128 * Len(img.bin)
           THEN /\ Len(img.data) = Len(img.bin)
                /\ \A i \in 1..Len(img.bin) : img.data[i] = 255 - img.bin[i]
           ELSE img.data = img.bin /\ img.mode = "1"

\* 255 pixels, 128 of them white: the mean is exactly 128, no inversion
C9_Witness ==
    /\ img.stage = "oriented"
    /\ Len(img.bin) = 255
    /\ Cardinality(WhitePixels) = 128
    /\ img.data = img.bin

\* C10: last_text is overwritten with the cycle's text at the end of every
\* cycle, printed or not, failed capture or not, so during the next cycle
\* it is the text the previous cycle returned; and in diff mode the cycle
\* after a failed capture prints every non-empty line of its text.
C10_LastTextFollows ==
    /\ (Watching /\ pc = "sleep") => last_text = text
    /\ (Watching /\ ~FirstCycle /\ pc \in {"grab", "pre", "ocr"})
           => last_text = text
    /\ (Watching /\ prev_failed /\ pc \in {"grab", "pre", "ocr", "post_ocr",
                                           "finally", "w_emit", "w_assign"})
           => last_text = <<>>
    /\ (DiffCycleEmitted /\ prev_failed) => out = NonEmptyLines(text)

\* the cycle after a failed capture printed both lines of its text
C10_Witness ==
    /\ DiffCycleEmitted
    /\ prev_failed
    /\ Len(out) = 2
    /\ out = Split(text)

====
